---- MODULE Spec2Model ----
(***************************************************************************)
(* Model of stock_signal_notifier.py: the indicator computation            *)
(* (compute_indicators, _safe_float), the classification rubric            *)
(* (build_signal), the row/report builders and the batch loop of main().   *)
(*                                                                         *)
(* Numbers.  A Python float is modelled as a record [k, v]:                *)
(*   k = "num"  a finite number, v its value in hundredths (Scale = 100),  *)
(*   k = "nan"  the IEEE not-a-number (every ordered comparison is false), *)
(*   k = "none" Python's None.                                             *)
(* Close prices are whole currency units, so every rolling mean over 20 or *)
(* 50 closes is an exact number of hundredths.                             *)
(***************************************************************************)
EXTENDS Integers, Sequences, FiniteSets, TLC

\* ---------------------------------------------------------------- CONFIG
TICKERS == <<"AAPL", "TSLA", "NVDA">>

LOW_WINDOW_DAYS == 60
RSI_OVERSOLD == 30
RSI_OVERBOUGHT == 70
PE_MAX_FOR_BUY == 30
\* 1.05, in hundredths
NEAR_LOW_BUFFER == 105
\* 1.05, in hundredths
ABOVE_SMA20_SELL_BUFFER == 105

\* window of close.rolling(20)
SMA20_WINDOW == 20
\* window of close.rolling(50)
SMA50_WINDOW == 50
\* default window of RSIIndicator(close)
RSI_WINDOW == 14

\* fixed-point scale: values are held in hundredths
Scale == 100

\* longest close series drawn as an input
MaxCloseLen == 61

\* ---------------------------------------------------------------- values
None == [k |-> "none", v |-> 0]
NaN == [k |-> "nan", v |-> 0]
Num(x) == [k |-> "num", v |-> x]
\* a non-numeric string such as "N/A" coming from the valuation lookup
RawStr == [k |-> "str", v |-> 0]

IsNone(x) == x.k = "none"
IsNum(x) == x.k = "num"

\* Python float comparisons: false as soon as one side is NaN.
\* Only used on values that are not None (the code guards with `is not None`).
FloatLt(a, b) == IsNum(a) /\ IsNum(b) /\ a.v < b.v
FloatLe(a, b) == IsNum(a) /\ IsNum(b) /\ a.v <= b.v
FloatGt(a, b) == IsNum(a) /\ IsNum(b) /\ a.v > b.v

\* x * c where c is a constant given in hundredths; both sides of the
\* comparisons below are kept in units of 1/Scale^2 to stay in integers.
TimesBuffer(x, c) == IF IsNum(x) THEN Num(x.v * c) ELSE NaN
Scaled(x) == IF IsNum(x) THEN Num(x.v * Scale) ELSE NaN

\* f"{x:.2f}": the values are whole hundredths, printed as they are; nan prints "nan"
Fmt2(x) == [k |-> IF IsNum(x) THEN "text2" ELSE "textnan", v |-> IF IsNum(x) THEN x.v ELSE 0]
\* f"{x:.1f}": rounded to tenths (ties to even)
RoundTenths(h) ==
    LET q == h \div 10
        r == h % 10
    IN  IF r < 5 THEN q
        ELSE IF r > 5 THEN q + 1
        ELSE IF q % 2 = 0 THEN q ELSE q + 1
Fmt1(x) == [k |-> IF IsNum(x) THEN "text1" ELSE "textnan", v |-> IF IsNum(x) THEN RoundTenths(x.v) ELSE 0]
NA == [k |-> "n/a", v |-> 0]

\* ---------------------------------------------------------------- _safe_float
\* float(x) succeeds on a number and on NaN (float(nan) is nan, no exception);
\* it raises on None and on a non-numeric string, and only then None is returned.
_safe_float(x) == IF x.k \in {"num", "nan"} THEN x ELSE None

\* ---------------------------------------------------------------- build_signal
Reason(tag, a, b) == [tag |-> tag, a |-> a, b |-> b]

OptReason(cond, r) == IF cond THEN <<r>> ELSE <<>>

buy_reasons_pe_strict(ind) ==
    OptReason(~IsNone(ind.rsi) /\ FloatLt(ind.rsi, Num(RSI_OVERSOLD * Scale)),
              Reason("RSI oversold", Fmt1(ind.rsi), Num(RSI_OVERSOLD)))
    \o OptReason(~IsNone(ind.low_3m)
                 /\ FloatLe(Scaled(ind.last_price), TimesBuffer(ind.low_3m, NEAR_LOW_BUFFER)),
                 Reason("Price near 3m low", Fmt2(ind.last_price), Fmt2(ind.low_3m)))
    \o OptReason(~IsNone(ind.trailing_pe) /\ FloatLe(ind.trailing_pe, Num(PE_MAX_FOR_BUY * Scale)),
                 Reason("Valuation ok", None, None))
    \o OptReason(~IsNone(ind.sma20) /\ FloatLt(ind.last_price, ind.sma20),
                 Reason("Below SMA20", Fmt2(ind.last_price), Fmt2(ind.sma20)))

buy_reasons(ind) ==
    OptReason(~IsNone(ind.rsi) /\ FloatLt(ind.rsi, Num(RSI_OVERSOLD * Scale)),
              Reason("RSI oversold", Fmt1(ind.rsi), Num(RSI_OVERSOLD)))
    \o OptReason(~IsNone(ind.low_3m)
                 /\ FloatLe(Scaled(ind.last_price), TimesBuffer(ind.low_3m, NEAR_LOW_BUFFER)),
                 Reason("Price near 3m low", Fmt2(ind.last_price), Fmt2(ind.low_3m)))
    \o OptReason(IsNone(ind.trailing_pe) \/ FloatLe(ind.trailing_pe, Num(PE_MAX_FOR_BUY * Scale)),
                 Reason("Valuation ok", None, None))
    \o OptReason(~IsNone(ind.sma20) /\ FloatLt(ind.last_price, ind.sma20),
                 Reason("Below SMA20", Fmt2(ind.last_price), Fmt2(ind.sma20)))

sell_reasons_rsi_needs_sma(ind) ==
    OptReason(~IsNone(ind.rsi) /\ FloatGt(ind.rsi, Num(RSI_OVERBOUGHT * Scale))
              /\ ~IsNone(ind.sma20) /\ FloatGt(ind.last_price, ind.sma20),
              Reason("RSI overbought", Fmt1(ind.rsi), Num(RSI_OVERBOUGHT)))
    \o OptReason(~IsNone(ind.sma20)
                 /\ FloatGt(Scaled(ind.last_price), TimesBuffer(ind.sma20, ABOVE_SMA20_SELL_BUFFER)),
                 Reason("above SMA20", Num(ABOVE_SMA20_SELL_BUFFER - Scale), None))

sell_reasons(ind) ==
    OptReason(~IsNone(ind.rsi) /\ FloatGt(ind.rsi, Num(RSI_OVERBOUGHT * Scale)),
              Reason("RSI overbought", Fmt1(ind.rsi), Num(RSI_OVERBOUGHT)))
    \o OptReason(~IsNone(ind.sma20)
                 /\ FloatGt(Scaled(ind.last_price), TimesBuffer(ind.sma20, ABOVE_SMA20_SELL_BUFFER)),
                 Reason("above SMA20", Num(ABOVE_SMA20_SELL_BUFFER - Scale), None))

hold_context_rsi_always(ind) ==
    <<Reason("RSI", IF IsNone(ind.rsi) THEN NA ELSE Fmt1(ind.rsi), None)>>
    \o OptReason(~IsNone(ind.sma20) /\ ~IsNone(ind.sma50),
                 Reason(IF FloatGt(ind.sma20, ind.sma50) THEN "Trend up" ELSE "Trend down",
                        Fmt2(ind.sma20), Fmt2(ind.sma50)))

hold_context(ind) ==
    OptReason(~IsNone(ind.rsi), Reason("RSI", Fmt1(ind.rsi), None))
    \o OptReason(~IsNone(ind.sma20) /\ ~IsNone(ind.sma50),
                 Reason(IF FloatGt(ind.sma20, ind.sma50) THEN "Trend up" ELSE "Trend down",
                        Fmt2(ind.sma20), Fmt2(ind.sma50)))

Result(s, w) == [signal |-> s, why |-> w]

build_signal_bar2(ind) ==
    IF Len(buy_reasons(ind)) >= 2 THEN Result("BUY", buy_reasons(ind))
    ELSE IF Len(sell_reasons(ind)) >= 1 THEN Result("SELL", sell_reasons(ind))
    ELSE Result("HOLD", hold_context(ind))

build_signal_sell_first(ind) ==
    IF Len(sell_reasons(ind)) >= 1 THEN Result("SELL", sell_reasons(ind))
    ELSE IF Len(buy_reasons(ind)) >= 3 THEN Result("BUY", buy_reasons(ind))
    ELSE Result("HOLD", hold_context(ind))

build_signal_sell_bar2(ind) ==
    IF Len(buy_reasons(ind)) >= 3 THEN Result("BUY", buy_reasons(ind))
    ELSE IF Len(sell_reasons(ind)) >= 2 THEN Result("SELL", sell_reasons(ind))
    ELSE Result("HOLD", hold_context(ind))

build_signal(ind) ==
    IF Len(buy_reasons(ind)) >= 3 THEN Result("BUY", buy_reasons(ind))
    ELSE IF Len(sell_reasons(ind)) >= 1 THEN Result("SELL", sell_reasons(ind))
    ELSE Result("HOLD", hold_context(ind))


\* ---------------------------------------------------------------- compute_indicators
RECURSIVE SumLast(_, _)
\* sum of the last n elements of close (n <= Len(close))
SumLast(close, n) ==
    IF n = 0 THEN 0 ELSE close[Len(close)] + SumLast(SubSeq(close, 1, Len(close) - 1), n - 1)

\* close.rolling(w).mean().iloc[-1]: NaN while fewer than w observations exist
rolling_mean_last(close, w) ==
    IF Len(close) < w THEN NaN ELSE Num((SumLast(close, w) * Scale) \div w)

TailN(close, n) == SubSeq(close, Len(close) - n + 1, Len(close))
SeqMin(s) == CHOOSE m \in {s[k] : k \in 1..Len(s)} : \A k \in 1..Len(s) : m <= s[k]

\* close.tail(LOW_WINDOW_DAYS).min() if len(close) >= LOW_WINDOW_DAYS else close.min()
low_window(close) ==
    IF Len(close) >= LOW_WINDOW_DAYS
    THEN Num(SeqMin(TailN(close, LOW_WINDOW_DAYS)) * Scale)
    ELSE Num(SeqMin(close) * Scale)

\* What RSIIndicator(close).rsi().iloc[-1] (library `ta`) can give: NaN during
\* the warm-up, otherwise some number in [0, 100]; the library is not part of
\* the program, so its result is an input constrained only by the warm-up.
RsiValues == {Num(2500), Num(5000), Num(8000)}
RsiLib(close) == IF Len(close) < RSI_WINDOW THEN {NaN} ELSE RsiValues

\* What the valuation lookup (yf.Ticker(...).get_info() / .info) can give:
\* no dict at all (or an exception, swallowed), or a dict whose fields are
\* missing (None), a non-numeric string, NaN or a number.
Info(isdict, pe, pb) == [isdict |-> isdict, trailingPE |-> pe, priceToBook |-> pb]
NoInfo == Info(FALSE, None, None)

Indicators(last_price, sma20, sma50, rsi, low_3m, trailing_pe, price_to_book) ==
    [last_price |-> last_price, sma20 |-> sma20, sma50 |-> sma50, rsi |-> rsi,
     low_3m |-> low_3m, trailing_pe |-> trailing_pe, price_to_book |-> price_to_book]

compute_indicators(close, rsi_lib, info) ==
    Indicators(
        Num(close[Len(close)] * Scale),
        _safe_float(rolling_mean_last(close, SMA20_WINDOW)),
        _safe_float(rolling_mean_last(close, SMA50_WINDOW)),
        _safe_float(rsi_lib),
        _safe_float(low_window(close)),
        IF info.isdict THEN _safe_float(info.trailingPE) ELSE None,
        IF info.isdict THEN _safe_float(info.priceToBook) ELSE None)

\* ---------------------------------------------------------------- format_row, build_report
Bit1(x) == IF IsNone(x) THEN NA ELSE Fmt1(x)
Bit2(x) == IF IsNone(x) THEN NA ELSE Fmt2(x)

format_row(t, ind, signal, why) ==
    [kind |-> "row", t |-> t,
     px |-> Fmt2(ind.last_price), rsi |-> Bit1(ind.rsi),
     sma20 |-> Bit2(ind.sma20), sma50 |-> Bit2(ind.sma50),
     low_3m |-> Bit2(ind.low_3m), pe |-> Bit1(ind.trailing_pe),
     pb |-> Bit2(ind.price_to_book),
     signal |-> signal,
     \* the continuation line is only there when the joined rationale is non-empty
     why |-> why]

error_row(t, e) == [kind |-> "error", t |-> t, e |-> e]

\* the date of the header is the wall clock; only the rows matter here
build_report(rows) == [header |-> "Stock Signals", rows |-> rows]


\* ---------------------------------------------------------------- state of main()
VARIABLES
    pc,                    \* position of main(): fetch, compute, classify, tally, except, report, dispatch, done
    i,                     \* 1-based index in TICKERS of the ticker of the current iteration
    df,                    \* the close series returned by fetch_history
    ind,                   \* the Indicators of the current ticker
    signal,                \* first component of build_signal's result
    why,                   \* second component of build_signal's result
    rows,                  \* the list of report rows
    summary_flags,         \* {"BUY": n, "SELL": n}
    report,                \* the report, once built
    send_calls,            \* number of calls of send_email
    info_msg,              \* the closing [info] line printed by main()
    e,                     \* the exception caught by the except clause
    failed,                \* history: indices of the tickers whose try block raised
    SEND_EMAIL_IF_NO_BUY   \* the always-send configuration flag

vars == <<pc, i, df, ind, signal, why, rows, summary_flags, report, send_calls,
          info_msg, e, failed, SEND_EMAIL_IF_NO_BUY>>

N == Len(TICKERS)
Unset == [k |-> "unset", v |-> 0]
NoReport == [header |-> "", rows |-> <<>>]

\* ---------------------------------------------------------------- inputs
\* a close series of n whole-unit closes: the oldest is `first`, the most
\* recent is `last`, all the others are `base`
Series(n, first, base, last) ==
    [k \in 1..n |-> IF k = n THEN last ELSE IF k = 1 THEN first ELSE base]

CloseLens == {RSI_WINDOW - 1, SMA20_WINDOW, MaxCloseLen}
\* dip to 95 (old low 90), flat, spike to 110
Shapes == {<<90, 100, 95>>, <<100, 100, 100>>, <<100, 100, 110>>}
CloseSeries == {Series(n, sh[1], sh[2], sh[3]) : n \in CloseLens, sh \in Shapes}
Infos == {NoInfo, Info(TRUE, Num(2000), RawStr)}

\* the Indicator Sets build_signal is exercised on when taken alone
IndicatorSets ==
    {Indicators(Num(p), s20, s50, r, l, pe, pb) :
        p \in {9500, 10000, 10500, 10600},
        s20 \in {None, NaN, Num(10000)},
        s50 \in {None, NaN, Num(9000), Num(10000)},
        r \in {None, NaN, Num(2500), Num(3000), Num(5000), Num(7000), Num(8000)},
        l \in {None, NaN, Num(9400), Num(10000)},
        pe \in {None, NaN, Num(2000), Num(3000), Num(4000)},
        pb \in {None, Num(150)}}

\* ---------------------------------------------------------------- main()
Init ==
    /\ pc = "fetch"
    /\ i = 1
    /\ df = <<>>
    /\ ind = Unset
    /\ signal = ""
    /\ why = <<>>
    /\ rows = <<>>
    /\ summary_flags = [BUY |-> 0, SELL |-> 0]
    /\ report = NoReport
    /\ send_calls = 0
    /\ info_msg = ""
    /\ e = ""
    /\ failed = {}
    /\ SEND_EMAIL_IF_NO_BUY \in BOOLEAN

\* df = fetch_history(t), the download returned data
FetchHistory ==
    /\ pc = "fetch"
    /\ i <= N
    /\ \E close \in CloseSeries : df' = close
    /\ pc' = "compute"
    /\ UNCHANGED <<i, ind, signal, why, rows, summary_flags, report, send_calls,
                   info_msg, e, failed, SEND_EMAIL_IF_NO_BUY>>

\* df = fetch_history(t), df.empty: ValueError
FetchHistoryRaises ==
    /\ pc = "fetch"
    /\ i <= N
    /\ e' = "No price data"
    /\ failed' = failed \cup {i}
    /\ pc' = "except"
    /\ UNCHANGED <<i, df, ind, signal, why, rows, summary_flags, report, send_calls,
                   info_msg, SEND_EMAIL_IF_NO_BUY>>

\* ind = compute_indicators(df, t)
ComputeIndicators ==
    /\ pc = "compute"
    /\ \E rsi_lib \in RsiLib(df), info \in Infos :
          ind' = compute_indicators(df, rsi_lib, info)
    /\ pc' = "classify"
    /\ UNCHANGED <<i, df, signal, why, rows, summary_flags, report, send_calls,
                   info_msg, e, failed, SEND_EMAIL_IF_NO_BUY>>

\* compute_indicators raises (no "Close" column, a close that float() rejects, ...)
ComputeIndicatorsRaises ==
    /\ pc = "compute"
    /\ e' = "indicator error"
    /\ failed' = failed \cup {i}
    /\ pc' = "except"
    /\ UNCHANGED <<i, df, ind, signal, why, rows, summary_flags, report, send_calls,
                   info_msg, SEND_EMAIL_IF_NO_BUY>>

\* signal, why = build_signal(t, ind); row = format_row(...); rows.append(row)
Classify ==
    /\ pc = "classify"
    /\ signal' = build_signal(ind).signal
    /\ why' = build_signal(ind).why
    /\ rows' = Append(rows, format_row(TICKERS[i], ind, signal', why'))
    /\ pc' = "tally"
    /\ UNCHANGED <<i, df, ind, summary_flags, report, send_calls, info_msg, e, failed,
                   SEND_EMAIL_IF_NO_BUY>>

\* the for statement moves on: next ticker, or the code after the loop.
\* df, ind, signal and why are overwritten before they are read again, so
\* they are cleared here.
NextTicker ==
    /\ i' = i + 1
    /\ pc' = IF i + 1 > N THEN "report" ELSE "fetch"
    /\ df' = <<>>
    /\ ind' = Unset
    /\ signal' = ""
    /\ why' = <<>>

Tally_counts_every_signal ==
    /\ pc = "tally"
    /\ summary_flags' = [summary_flags EXCEPT !["BUY"] = @ + 1]
    /\ NextTicker
    /\ UNCHANGED <<rows, report, send_calls, info_msg, e, failed, SEND_EMAIL_IF_NO_BUY>>

\* if signal in summary_flags: summary_flags[signal] += 1
Tally ==
    /\ pc = "tally"
    /\ summary_flags' = IF signal \in DOMAIN summary_flags
                        THEN [summary_flags EXCEPT ![signal] = @ + 1]
                        ELSE summary_flags
    /\ NextTicker
    /\ UNCHANGED <<rows, report, send_calls, info_msg, e, failed, SEND_EMAIL_IF_NO_BUY>>

ExceptHandler_drops_row ==
    /\ pc = "except"
    /\ NextTicker
    /\ e' = ""
    /\ UNCHANGED <<rows, summary_flags, report, send_calls, info_msg, failed,
                   SEND_EMAIL_IF_NO_BUY>>

\* except Exception as e: rows.append(f"{t:10s} | ERROR: {e}")
ExceptHandler ==
    /\ pc = "except"
    /\ rows' = Append(rows, error_row(TICKERS[i], e))
    /\ NextTicker
    /\ e' = ""
    /\ UNCHANGED <<summary_flags, report, send_calls, info_msg, failed, SEND_EMAIL_IF_NO_BUY>>

\* report = build_report(rows); print(report)
BuildReport ==
    /\ pc = "report"
    /\ report' = build_report(rows)
    /\ pc' = "dispatch"
    /\ UNCHANGED <<i, df, ind, signal, why, rows, summary_flags, send_calls, info_msg, e,
                   failed, SEND_EMAIL_IF_NO_BUY>>

should_email_buy_only == SEND_EMAIL_IF_NO_BUY \/ summary_flags["BUY"] > 0

\* SEND_EMAIL_IF_NO_BUY or any(v > 0 for v in summary_flags.values())
should_email ==
    SEND_EMAIL_IF_NO_BUY \/ \E key \in DOMAIN summary_flags : summary_flags[key] > 0

\* emailed = send_email(subject, report): True when the mail went out, False
\* when yagmail or the credentials are missing or the transport raised
SendEmail ==
    /\ pc = "dispatch"
    /\ should_email
    /\ send_calls' = send_calls + 1
    /\ \E emailed \in BOOLEAN :
          info_msg' = IF emailed THEN "Email sent." ELSE "Email not sent"
    /\ pc' = "done"
    /\ UNCHANGED <<i, df, ind, signal, why, rows, summary_flags, report, e, failed,
                   SEND_EMAIL_IF_NO_BUY>>

\* else: print("[info] No BUY/SELL signals today; email suppressed.")
Suppress ==
    /\ pc = "dispatch"
    /\ ~should_email
    /\ info_msg' = "email suppressed"
    /\ pc' = "done"
    /\ UNCHANGED <<i, df, ind, signal, why, rows, summary_flags, report, send_calls, e,
                   failed, SEND_EMAIL_IF_NO_BUY>>

Next ==
    \/ FetchHistory
    \/ FetchHistoryRaises
    \/ ComputeIndicators
    \/ ComputeIndicatorsRaises
    \/ Classify
    \/ Tally
    \/ ExceptHandler
    \/ BuildReport
    \/ SendEmail
    \/ Suppress

Spec == Init /\ [][Next]_vars

\* ---------------------------------------------------------------- build_signal taken alone
InitSignal ==
    /\ pc = "bs_call"
    /\ ind \in IndicatorSets
    /\ i = 1
    /\ df = <<>>
    /\ signal = ""
    /\ why = <<>>
    /\ rows = <<>>
    /\ summary_flags = [BUY |-> 0, SELL |-> 0]
    /\ report = NoReport
    /\ send_calls = 0
    /\ info_msg = ""
    /\ e = ""
    /\ failed = {}
    /\ SEND_EMAIL_IF_NO_BUY = FALSE

\* signal, why = build_signal(t, ind)
BuildSignalCall ==
    /\ pc = "bs_call"
    /\ signal' = build_signal(ind).signal
    /\ why' = build_signal(ind).why
    /\ pc' = "bs_returned"
    /\ UNCHANGED <<i, df, ind, rows, summary_flags, report, send_calls, info_msg, e, failed,
                   SEND_EMAIL_IF_NO_BUY>>

NextSignal == BuildSignalCall

SpecSignal == InitSignal /\ [][NextSignal]_vars


\* ================================================================ properties
\* The sub-conditions of the rubric, stated on the Indicator Set itself.
\* "known" is "not None"; a comparison with NaN is false.
IsKnown(x) == x.k # "none"
BuyCondRsi(d) == IsKnown(d.rsi) /\ d.rsi.k = "num" /\ d.rsi.v < RSI_OVERSOLD * Scale
BuyCondLow(d) ==
    IsKnown(d.low_3m) /\ d.low_3m.k = "num"
    /\ d.last_price.v * Scale <= d.low_3m.v * NEAR_LOW_BUFFER
BuyCondPe(d) ==
    ~IsKnown(d.trailing_pe)
    \/ (d.trailing_pe.k = "num" /\ d.trailing_pe.v <= PE_MAX_FOR_BUY * Scale)
BuyCondSma(d) == IsKnown(d.sma20) /\ d.sma20.k = "num" /\ d.last_price.v < d.sma20.v
SellCondRsi(d) == IsKnown(d.rsi) /\ d.rsi.k = "num" /\ d.rsi.v > RSI_OVERBOUGHT * Scale
SellCondSma(d) ==
    IsKnown(d.sma20) /\ d.sma20.k = "num"
    /\ d.last_price.v * Scale > d.sma20.v * ABOVE_SMA20_SELL_BUFFER

B2N(b) == IF b THEN 1 ELSE 0
BuyCount(d) == B2N(BuyCondRsi(d)) + B2N(BuyCondLow(d)) + B2N(BuyCondPe(d)) + B2N(BuyCondSma(d))
OtherThreeCount(d) == B2N(BuyCondRsi(d)) + B2N(BuyCondLow(d)) + B2N(BuyCondSma(d))
SellCount(d) == B2N(SellCondRsi(d)) + B2N(SellCondSma(d))

OptTag(cond, tag) == IF cond THEN <<tag>> ELSE <<>>
Tags(w) == [k \in 1..Len(w) |-> w[k].tag]
TagSet(w) == {w[k].tag : k \in 1..Len(w)}
BuyTagsInOrder(d) ==
    OptTag(BuyCondRsi(d), "RSI oversold") \o OptTag(BuyCondLow(d), "Price near 3m low")
    \o OptTag(BuyCondPe(d), "Valuation ok") \o OptTag(BuyCondSma(d), "Below SMA20")
SellTagsInOrder(d) ==
    OptTag(SellCondRsi(d), "RSI overbought") \o OptTag(SellCondSma(d), "above SMA20")
SellTags == {"RSI overbought", "above SMA20"}
Signals == {"BUY", "SELL", "HOLD"}
Returned == pc = "bs_returned"

\* C1: build_signal returns BUY exactly when at least 3 of the 4 BUY
\* sub-conditions hold; with 2 or fewer it is never BUY.
ThmC1_BuyIffThreeOfFour ==
    Returned => (signal = "BUY" <=> BuyCount(ind) >= 3)

WitC1_TwoOfFourNotBuy ==
    Returned /\ BuyCount(ind) = 2 /\ signal # "BUY"

\* C2: when both the BUY bar (>= 3) and the SELL bar (>= 1) are met, the
\* result is BUY and the rationale is the BUY reasons only, in the order
\* RSI, near-low, valuation, below-SMA20.
ThmC2_BuyPrecedence ==
    (Returned /\ BuyCount(ind) >= 3 /\ SellCount(ind) >= 1)
        => /\ signal = "BUY"
           /\ Tags(why) = BuyTagsInOrder(ind)
           /\ TagSet(why) \cap SellTags = {}

WitC2_BothBarsMet ==
    Returned /\ BuyCount(ind) >= 3 /\ SellCount(ind) >= 1 /\ signal = "BUY"

\* C3: a null trailing_pe counts as "valuation ok" toward the BUY count, so
\* null P/E plus exactly 2 of the other 3 BUY sub-conditions is BUY; a null
\* rsi, low_3m or sma20 contributes no BUY or SELL reason.
ThmC3_PermissiveOnAbsence ==
    Returned =>
        /\ IsNone(ind.trailing_pe) => "Valuation ok" \in TagSet(buy_reasons(ind))
        /\ (IsNone(ind.trailing_pe) /\ OtherThreeCount(ind) = 2)
              => (signal = "BUY" /\ "Valuation ok" \in TagSet(why))
        /\ IsNone(ind.rsi) =>
              {"RSI oversold", "RSI overbought"}
                  \cap (TagSet(buy_reasons(ind)) \cup TagSet(sell_reasons(ind))) = {}
        /\ IsNone(ind.low_3m) => "Price near 3m low" \notin TagSet(buy_reasons(ind))
        /\ IsNone(ind.sma20) =>
              {"Below SMA20", "above SMA20"}
                  \cap (TagSet(buy_reasons(ind)) \cup TagSet(sell_reasons(ind))) = {}

WitC3_NullPeTwoOthersBuy ==
    Returned /\ IsNone(ind.trailing_pe) /\ OtherThreeCount(ind) = 2 /\ signal = "BUY"
    /\ IsNone(ind.rsi)

\* C4: SELL exactly when fewer than 3 BUY sub-conditions and at least 1 SELL
\* sub-condition hold, with the SELL-reason list as rationale; HOLD in every
\* remaining case; the result is always one of BUY, SELL, HOLD.
ThmC4_SellAndHold ==
    Returned =>
        /\ signal \in Signals
        /\ signal = "SELL" <=> (BuyCount(ind) < 3 /\ SellCount(ind) >= 1)
        /\ signal = "SELL" => Tags(why) = SellTagsInOrder(ind)
        /\ signal = "HOLD" <=> (BuyCount(ind) < 3 /\ SellCount(ind) = 0)

WitC4_SellBelowBuyBar ==
    Returned /\ signal = "SELL" /\ BuyCount(ind) = 2 /\ SellCount(ind) = 1

\* C5 as stated: RSI known and above RSI_OVERBOUGHT with the SMA20 sell
\* condition false always gives SELL.
OrigC5_RsiAloneAlwaysSell ==
    (Returned /\ SellCondRsi(ind) /\ ~SellCondSma(ind)) => signal = "SELL"

\* C5 (amended): RSI known and above RSI_OVERBOUGHT with the SMA20 sell
\* condition false gives SELL whenever fewer than 3 BUY sub-conditions hold,
\* and BUY when 3 hold.
ThmC5_RsiAloneSellUnlessBuy ==
    (Returned /\ SellCondRsi(ind) /\ ~SellCondSma(ind))
        => /\ BuyCount(ind) < 3 => signal = "SELL"
           /\ BuyCount(ind) >= 3 => signal = "BUY"

WitC5_RsiAloneSell ==
    Returned /\ SellCondRsi(ind) /\ ~SellCondSma(ind) /\ IsKnown(ind.sma20)
    /\ ind.sma20.k = "num" /\ BuyCount(ind) < 3 /\ signal = "SELL"

\* C6: with rsi, low_3m, sma20 and trailing_pe all null, the result is HOLD
\* with an empty rationale, whatever last_price, sma50 and price_to_book are.
ThmC6_AllNullHoldEmpty ==
    (Returned /\ IsNone(ind.rsi) /\ IsNone(ind.low_3m) /\ IsNone(ind.sma20)
              /\ IsNone(ind.trailing_pe))
        => (signal = "HOLD" /\ why = <<>>)

WitC6_AllNull ==
    Returned /\ IsNone(ind.rsi) /\ IsNone(ind.low_3m) /\ IsNone(ind.sma20)
    /\ IsNone(ind.trailing_pe) /\ ind.sma50.k = "num" /\ signal = "HOLD"

IsClassified(r, s) == r.kind = "row" /\ r.signal = s
AfterLoop == pc \in {"report", "dispatch", "done"}

\* C7: whatever tickers fail, every ticker is processed: after the loop the
\* row list has exactly one row per ticker in the input order, an error row
\* naming the ticker for each failing one and a classified row for every
\* other one, and the report is built from these rows.
ThmC7_FailureIsolation ==
    /\ AfterLoop =>
          /\ Len(rows) = N
          /\ \A k \in 1..N :
                /\ rows[k].t = TICKERS[k]
                /\ k \in failed => rows[k].kind = "error"
                /\ k \notin failed => (rows[k].kind = "row" /\ rows[k].signal \in Signals)
    /\ pc = "tally" =>
          (Len(rows) = i /\ IsClassified(rows[i], signal) /\ rows[i].t = TICKERS[i])
    /\ pc \in {"dispatch", "done"} => report.rows = rows

WitC7_SomeFailSomeClassify ==
    pc = "done" /\ failed = {1, 3} /\ Len(report.rows) = N
    /\ rows[2].kind = "row"

AnyBuyOrSell == \E k \in 1..Len(rows) : IsClassified(rows[k], "BUY") \/ IsClassified(rows[k], "SELL")

\* C8: send_email is called once, after the report is built, exactly when
\* the always-send flag is true or some ticker was classified BUY or SELL;
\* otherwise it is never called.
ThmC8_DispatchPolicy ==
    /\ pc = "done" => (send_calls = 1 <=> (SEND_EMAIL_IF_NO_BUY \/ AnyBuyOrSell))
    /\ pc = "done" => (send_calls = 0 <=> info_msg = "email suppressed")
    /\ send_calls <= 1
    /\ send_calls > 0 => (pc = "done" /\ report = build_report(rows))

WitC8_SellOnlyStillSends ==
    pc = "done" /\ ~SEND_EMAIL_IF_NO_BUY /\ send_calls = 1
    /\ \A k \in 1..Len(rows) : ~IsClassified(rows[k], "BUY")

\* C9 as stated: a series shorter than the window gives sma20 / sma50 = None
\* (rsi = None during the warm-up), the row shows n/a, and no trend note and
\* no SMA20 reason is produced for it.
OrigC9_ShortSeriesGivesNone ==
    /\ pc = "classify" =>
          /\ Len(df) < SMA20_WINDOW => IsNone(ind.sma20)
          /\ Len(df) < SMA50_WINDOW => IsNone(ind.sma50)
          /\ Len(df) < RSI_WINDOW => IsNone(ind.rsi)
    /\ pc = "tally" =>
          /\ Len(df) < SMA50_WINDOW => {"Trend up", "Trend down"} \cap TagSet(why) = {}
          /\ Len(df) < SMA20_WINDOW => {"Below SMA20", "above SMA20"} \cap TagSet(why) = {}
          /\ Len(df) < SMA20_WINDOW => rows[Len(rows)].sma20 = NA

Processed == i - 1
CountRows(s) == Cardinality({k \in 1..Processed : IsClassified(rows[k], s)})

\* C10: at every point of the loop the BUY count is the number of processed
\* tickers classified BUY and the SELL count the number classified SELL (HOLD
\* and error rows change neither), so BUY + SELL never exceeds the number of
\* rows appended so far.
ThmC10_TallyInvariant ==
    /\ Processed <= Len(rows)
    /\ summary_flags["BUY"] = CountRows("BUY")
    /\ summary_flags["SELL"] = CountRows("SELL")
    /\ summary_flags["BUY"] + summary_flags["SELL"] <= Len(rows)

WitC10_MixedRows ==
    /\ pc = "report"
    /\ IsClassified(rows[1], "HOLD") /\ rows[2].kind = "error" /\ IsClassified(rows[3], "SELL")
    /\ summary_flags = [BUY |-> 0, SELL |-> 1]

====
